---- MODULE Spec2Model ----
(***************************************************************************)
(* A model of keynome's statistical core (src/src/lib.rs): the bounded     *)
(* keystroke log (KeystrokeLogger), digraph statistics, their text form,   *)
(* the diff score and its baseline calibration (KeynomeAuthenticator) and  *)
(* the persisted UserProfile.                                              *)
(*                                                                         *)
(* Conventions.                                                            *)
(*  - Option<T>: None is <<>>, Some(x) is <<x>>.                           *)
(*  - A String is the sequence of its characters, a char a one-character   *)
(*    TLA+ string.                                                         *)
(*  - An f64 is an exact fraction [n, d] in lowest terms with d > 0; the   *)
(*    IEEE specials have d = 0: NaN is 0/0, +inf is 1/0.  Rounding of      *)
(*    f64 arithmetic is not modelled; sqrt is rounded down to a grid.      *)
(*  - A HashMap is a function; where the code iterates one, the visiting   *)
(*    order is an explicit argument (a sequence of the keys).              *)
(*  - A panic (unwrap on None/Err, index out of bounds, arithmetic         *)
(*    overflow check, remainder by zero) is the value Panic.               *)
(***************************************************************************)
EXTENDS Integers, Sequences, FiniteSets, TLC

\* ------------------------------------------------------------- bounds
\* Most events one log run appends (the log itself is unbounded).
MaxAppends == 4
\* Timestamps an appended event may carry: 0..MaxTs.
MaxTs == 1
\* Limits set_events_limit is called with: 0..MaxLimit.
MaxLimit == 2

Keys == {"a", "b"}

\* ------------------------------------------------------------ helpers
None == <<>>
Some(x) == <<x>>
IsSome(o) == Len(o) = 1
Unwrap(o) == o[1]

Panic == [panic |-> TRUE]
Ok(v) == [panic |-> FALSE, value |-> v]

Min(a, b) == IF a <= b THEN a ELSE b
Abs(a) == IF a < 0 THEN -a ELSE a

RECURSIVE GCD(_, _)
GCD(a, b) == IF b = 0 THEN a ELSE GCD(b, a % b)

RECURSIVE SumSeq(_)
SumSeq(s) == IF s = <<>> THEN 0 ELSE Head(s) + SumSeq(Tail(s))

\* floor(sqrt(n)) by bisection on lo..hi, with lo*lo <= n < (hi+1)*(hi+1).
RECURSIVE ISqrtIn(_, _, _)
ISqrtIn(n, lo, hi) ==
    IF lo >= hi THEN lo
    ELSE LET mid == (lo + hi + 1) \div 2
         IN  IF mid * mid <= n THEN ISqrtIn(n, mid, hi) ELSE ISqrtIn(n, lo, mid - 1)

ISqrt(n) == ISqrtIn(n, 0, Min(n, 46340))

\* ------------------------------------------------------------ f64
Frac(n, d) ==
    IF d = 0 THEN [n |-> IF n > 0 THEN 1 ELSE IF n < 0 THEN -1 ELSE 0, d |-> 0]
    ELSE LET g == GCD(Abs(n), Abs(d))
             s == IF d < 0 THEN -1 ELSE 1
         IN  [n |-> s * (n \div g), d |-> s * (d \div g)]

F(i) == [n |-> i, d |-> 1]
NaN == [n |-> 0, d |-> 0]
IsNaN(x) == x.d = 0 /\ x.n = 0
IsFinite(x) == x.d # 0

FAdd(x, y) ==
    IF x.d = 0 \/ y.d = 0
    THEN (IF IsNaN(x) \/ IsNaN(y) THEN NaN
          ELSE IF x.d = 0 /\ y.d = 0 /\ x.n # y.n THEN NaN
          ELSE IF x.d = 0 THEN x ELSE y)
    ELSE LET l == (x.d \div GCD(x.d, y.d)) * y.d
         IN  Frac(x.n * (l \div x.d) + y.n * (l \div y.d), l)
FNeg(x) == [n |-> -x.n, d |-> x.d]
FSub(x, y) == FAdd(x, FNeg(y))
FAbs(x) == [n |-> Abs(x.n), d |-> x.d]
FMul(x, y) ==
    IF IsNaN(x) \/ IsNaN(y) THEN NaN ELSE Frac(x.n * y.n, IF x.d = 0 \/ y.d = 0 THEN 0 ELSE x.d * y.d)
\* x / y, IEEE 754: 0/0 is NaN, a nonzero finite over 0 is an infinity.
FDiv(x, y) ==
    IF IsNaN(x) \/ IsNaN(y) THEN NaN
    ELSE IF x.d = 0 /\ y.d = 0 THEN NaN
    ELSE IF y.d = 0 THEN F(0)
    ELSE IF x.d = 0 THEN (IF y.n < 0 THEN FNeg(x) ELSE x)
    ELSE Frac(x.n * y.d, x.d * y.n)
\* x <= y on f64: false whenever either side is NaN.
FLe(x, y) ==
    /\ ~IsNaN(x) /\ ~IsNaN(y)
    /\ IF x.d = 0 /\ y.d = 0 THEN x.n <= y.n
       ELSE IF x.d = 0 THEN x.n < 0
       ELSE IF y.d = 0 THEN y.n > 0
       ELSE x.n * y.d <= y.n * x.d

\* f64::sqrt of a finite x >= 0, rounded down to the grid 1/1000 (to 1 where
\* the scaled radicand would leave TLC's integers).
FSqrt(x) ==
    IF x.n <= 2000
    THEN Frac(ISqrt((x.n * 1000000) \div x.d), 1000)
    ELSE F(ISqrt(x.n \div x.d))

\* ------------------------------------------------------------ KeyEvent
\* timestamp_ms is a u128; TLC's integers are 32 bits wide, so the width is
\* scaled down: the subtraction of line 80 wraps modulo 2^TimestampBits.
TimestampBits == 8
TimestampModulus == 2 ^ TimestampBits

KeyEvent(ts, k) == [timestamp_ms |-> ts, key |-> k]

VARIABLES
    events,          \* KeystrokeLogger.events, head first
    events_limit,    \* KeystrokeLogger.events_limit: Option<usize>
    overflow_checks, \* the build: TRUE debug (overflow panics), FALSE release (wraps)
    input,           \* the arguments drawn for the calls on pure functions
    ret,             \* what the last call returned: [op, ...]
    appended,        \* history: the events appended since the log was last cleared
    limit_on_empty   \* history: no limit was set since then while appended # <<>>

vars == <<events, events_limit, overflow_checks, input, ret, appended, limit_on_empty>>
\* What a call on a pure function leaves alone: the logger and its history.
logger == <<events, events_limit, overflow_checks, appended, limit_on_empty>>

\* ------------------------------------------------------------ KeystrokeLogger
\* A slip of add_key_event: the overflow is taken from the tail.
RECURSIVE pop_back(_, _)
pop_back(evs, n) ==
    IF n = 0 \/ evs = <<>> THEN evs ELSE pop_back(SubSeq(evs, 1, Len(evs) - 1), n - 1)

\* VecDeque::pop_front, n times (a no-op on an empty deque).
RECURSIVE pop_front(_, _)
pop_front(evs, n) ==
    IF n = 0 \/ evs = <<>> THEN evs ELSE pop_front(Tail(evs), n - 1)

\* The events after add_key_event(ev) on a logger (evs, limit).
add_key_event(evs, limit, ev) ==
    LET pushed == Append(evs, ev)
    IN  IF IsSome(limit) /\ Len(pushed) > Unwrap(limit)
        THEN pop_front(pushed, Len(pushed) - Unwrap(limit))
        ELSE pushed

\* The limit after set_events_limit(limit): the events are not touched.
set_events_limit(limit) == Some(limit)

clear_key_events(evs) == <<>>

\* Line 80, ev2.timestamp_ms - ev1.timestamp_ms on u128: the difference, or on
\* underflow a panic (overflow checks on) or the wrapped value (off).
latency(ev1, ev2, checks) ==
    IF ev2.timestamp_ms >= ev1.timestamp_ms
    THEN Ok(ev2.timestamp_ms - ev1.timestamp_ms)
    ELSE IF checks THEN Panic
    ELSE Ok((ev2.timestamp_ms + TimestampModulus - ev1.timestamp_ms) % TimestampModulus)

EmptyMap == [k \in {} |-> <<>>]

\* The `samples` map after the first n iterations of the loop of lines 75-85
\* (iteration i pairs events i and i+1, counted from 1); Panic once a
\* subtraction panicked.
RECURSIVE samples_loop(_, _, _)
samples_loop(evs, n, checks) ==
    IF n = 0 THEN Ok(EmptyMap)
    ELSE LET prev == samples_loop(evs, n - 1, checks)
             k == <<evs[n].key, evs[n + 1].key>>
             v == latency(evs[n], evs[n + 1], checks)
         IN  IF prev.panic \/ v.panic THEN Panic
             ELSE IF k \in DOMAIN prev.value
                  THEN Ok([prev.value EXCEPT ![k] = Append(@, v.value)])
                  ELSE Ok([d \in DOMAIN prev.value \cup {k} |->
                             IF d = k THEN <<v.value>> ELSE prev.value[d]])

\* A slip of the loop bound of line 75: the last pair is not visited.
digraph_samples_short(evs, checks) ==
    samples_loop(evs, IF Len(evs) <= 1 THEN 0 ELSE Len(evs) - 2, checks)

digraph_samples(evs, checks) ==
    samples_loop(evs, IF Len(evs) = 0 THEN 0 ELSE Len(evs) - 1, checks)

\* statistical::mean: the sum over the count.
mean(v) == Frac(SumSeq(v), Len(v))

RECURSIVE SumSqDev(_, _)
SumSqDev(v, m) ==
    IF v = <<>> THEN F(0)
    ELSE LET dev == FSub(F(Head(v)), m)
         IN  FAdd(FMul(dev, dev), SumSqDev(Tail(v), m))

\* statistical::standard_deviation(v, Some(mean)): the corrected sample one.
standard_deviation(v, m) == FSqrt(FDiv(SumSqDev(v, m), F(Len(v) - 1)))

\* Line 89: a digraph is reported from this many samples on.
MinSamples == 2

\* Lines 87-96: the statistics of the digraphs with enough samples.
stats_of_samples(samples) ==
    [k \in {d \in DOMAIN samples : Len(samples[d]) >= MinSamples} |->
        LET m == mean(samples[k])
        IN  [size_samples |-> Len(samples[k]), mean |-> m,
             std |-> standard_deviation(samples[k], m)]]

compute_digraph_statistics(evs, checks) ==
    LET samples == digraph_samples(evs, checks)
    IN  IF samples.panic THEN Panic ELSE Ok(stats_of_samples(samples.value))

\* ------------------------------------------------------------ the log
Timestamps == 0..MaxTs
Limits == 0..MaxLimit

Init ==
    /\ events = <<>>
    /\ events_limit = None
    /\ overflow_checks \in BOOLEAN
    /\ input = [kind |-> "none"]
    /\ ret = [op |-> "new"]
    /\ appended = <<>>
    /\ limit_on_empty = TRUE

AddKeyEvent(ts, key) ==
    /\ Len(appended) < MaxAppends
    /\ events' = add_key_event(events, events_limit, KeyEvent(ts, key))
    /\ appended' = Append(appended, KeyEvent(ts, key))
    /\ ret' = [op |-> "add_key_event"]
    /\ UNCHANGED <<events_limit, overflow_checks, input, limit_on_empty>>

\* add_keystroke stamps the key with SystemTime::now(), which is not monotonic:
\* the clock may be set back between two calls.
AddKeystroke(key) ==
    /\ Len(appended) < MaxAppends
    /\ \E now \in Timestamps :
          /\ events' = add_key_event(events, events_limit, KeyEvent(now, key))
          /\ appended' = Append(appended, KeyEvent(now, key))
    /\ ret' = [op |-> "add_keystroke"]
    /\ UNCHANGED <<events_limit, overflow_checks, input, limit_on_empty>>

SetEventsLimit(limit) ==
    /\ events_limit' = set_events_limit(limit)
    /\ limit_on_empty' = (limit_on_empty /\ appended = <<>>)
    /\ ret' = [op |-> "set_events_limit", limit |-> limit, len_before |-> Len(events)]
    /\ UNCHANGED <<events, overflow_checks, input, appended>>

ClearKeyEvents ==
    /\ events' = clear_key_events(events)
    /\ appended' = <<>>
    /\ limit_on_empty' = TRUE
    /\ ret' = [op |-> "clear_key_events"]
    /\ UNCHANGED <<events_limit, overflow_checks, input>>

ComputeDigraphStatistics ==
    /\ ret' = [op |-> "compute_digraph_statistics",
               result |-> compute_digraph_statistics(events, overflow_checks)]
    /\ UNCHANGED <<logger, input>>

Next ==
    \/ \E ts \in Timestamps, key \in Keys : AddKeyEvent(ts, key)
    \/ \E key \in Keys : AddKeystroke(key)
    \/ \E limit \in Limits : SetEventsLimit(limit)
    \/ ClearKeyEvents
    \/ ComputeDigraphStatistics

Spec == Init /\ [][Next]_vars

\* ------------------------------------------------------------ text forms
\* serde_json::to_string of an f64: a finite number as its shortest decimal,
\* NaN and the infinities as null.
json_f64(x) == IF IsFinite(x) THEN Some(x) ELSE None

\* serde_json::to_string(&DigraphStats): the JSON object text of the struct.
json_of_stats(v) ==
    [json |-> "DigraphStats", size_samples |-> v.size_samples,
     mean |-> json_f64(v.mean), std |-> json_f64(v.std)]

\* serde_json::from_str::<DigraphStats>(v).unwrap(): a text that is no such
\* object, or has a null where an f64 is expected, panics.
stats_of_json(t) ==
    IF /\ "json" \in DOMAIN t /\ t.json = "DigraphStats"
       /\ IsSome(t.mean) /\ IsSome(t.std)
    THEN Ok([size_samples |-> t.size_samples, mean |-> Unwrap(t.mean), std |-> Unwrap(t.std)])
    ELSE Panic

\* format!("{}-{}", k.0, k.1)
digraph_key(k) == <<k[1], "-", k[2]>>

\* Lines 99-107.  The outer text is the JSON object of the string-keyed map;
\* serde_json writes and reads back a map of Strings unchanged.
serialize_digraph_statistics(stats) ==
    [json |-> "object",
     map |-> [key \in {digraph_key(k) : k \in DOMAIN stats} |->
                json_of_stats(stats[<<key[1], key[3]>>])]]

\* str::split('-'): the segments between the separators, empty ones included.
RECURSIVE split(_, _)
split(str, sep) ==
    IF \A i \in 1..Len(str) : str[i] # sep THEN <<str>>
    ELSE LET at == CHOOSE i \in 1..Len(str) :
                     str[i] = sep /\ \A j \in 1..(i - 1) : str[j] # sep
         IN  <<SubSeq(str, 1, at - 1)>> \o split(SubSeq(str, at + 1, Len(str)), sep)

\* Lines 114-119 for one entry (k, v): the digraph and its statistics, or the
\* panic of an index out of bounds or of the unwrap.
deserialize_entry(k, v) ==
    LET vec_digraph == split(k, "-")
    IN  IF Len(vec_digraph) < 2 THEN Panic
        ELSE LET vec_k1 == vec_digraph[1]
                 vec_k2 == vec_digraph[2]
             IN  IF Len(vec_k1) = 0 \/ Len(vec_k2) = 0 THEN Panic
                 ELSE LET digraph_stats == stats_of_json(v)
                      IN  IF digraph_stats.panic THEN Panic
                          ELSE Ok([digraph |-> <<vec_k1[1], vec_k2[1]>>,
                                   stats |-> digraph_stats.value])

\* The loop of lines 113-122 over the entries in the order `order` visits them:
\* a later insert of the same digraph replaces the earlier one.
RECURSIVE deserialize_loop(_, _, _)
deserialize_loop(map, order, stats) ==
    IF order = <<>> THEN Ok(stats)
    ELSE LET e == deserialize_entry(Head(order), map[Head(order)])
         IN  IF e.panic THEN Panic
             ELSE deserialize_loop(map, Tail(order),
                    [d \in DOMAIN stats \cup {e.value.digraph} |->
                       IF d = e.value.digraph THEN e.value.stats ELSE stats[d]])

\* Lines 109-124; `order` is the order the HashMap iterates its keys in.
deserialize_digraph_statistics(serialized, order) ==
    IF ~("json" \in DOMAIN serialized /\ serialized.json = "object") THEN Panic
    ELSE deserialize_loop(serialized.map, order, EmptyMap)

\* The orders a HashMap with the keys S may be iterated in.
RECURSIVE Orders(_)
Orders(S) ==
    IF S = {} THEN {<<>>}
    ELSE UNION {{<<x>> \o o : o \in Orders(S \ {x})} : x \in S}

\* ------------------------------------------------------------ KeynomeAuthenticator
\* Lines 154-167 from the key at the head of `order` on, with the running
\* `diff` and `n_comparisons`; `order` is the order the HashMap stats_profile
\* iterates its keys in.
RECURSIVE diff_loop(_, _, _, _, _, _)
diff_loop(stats_profile, stats_sample, diff_params, order, diff, n_comparisons) ==
    IF order = <<>> THEN diff
    ELSE LET k == Head(order)
             v == stats_profile[k]
         IN  IF v.size_samples < diff_params.min_instances
             THEN diff_loop(stats_profile, stats_sample, diff_params, Tail(order),
                            diff, n_comparisons)
             ELSE LET found == k \in DOMAIN stats_sample
                      divisor == IF diff_params.dispersion
                                 THEN FAdd(Frac(1, 1000), v.std) ELSE F(1)
                      diff1 == IF found
                               THEN FAdd(diff, FDiv(FAbs(FSub(v.mean, stats_sample[k].mean)),
                                                    divisor))
                               ELSE diff
                      n1 == IF found THEN n_comparisons + 1 ELSE n_comparisons
                  IN  IF n1 >= diff_params.max_comparisons THEN diff1
                      ELSE diff_loop(stats_profile, stats_sample, diff_params,
                                     Tail(order), diff1, n1)

\* A slip of line 155: the min_instances filter is left out.
compute_diff_unfiltered(stats_profile, stats_sample, diff_params, order) ==
    diff_loop(stats_profile, stats_sample, [diff_params EXCEPT !.min_instances = 0],
              order, F(0), 0)

\* Lines 147-169.
compute_diff(stats_profile, stats_sample, diff_params, order) ==
    diff_loop(stats_profile, stats_sample, diff_params, order, F(0), 0)

\* Lines 206-208: the events and the authenticator's fields are not read.
authenticate(self, evs) == TRUE

\* &vec[start..end]: the elements at the 0-based positions start..end-1.
slice(vec, start, end) == SubSeq(vec, start + 1, end)

\* A fresh KeystrokeLogger (no limit) after add_key_event of each of evs.
RECURSIVE logged(_, _)
logged(kstr_events, evs) ==
    IF evs = <<>> THEN kstr_events
    ELSE logged(add_key_event(kstr_events, None, Head(evs)), Tail(evs))

\* A slip of line 190: the chunks are counted from the head of the log.
idx_start_from_head(len, n_profile, n_sample, i) == n_sample * i

\* Lines 190 and 191.
idx_start(len, n_profile, n_sample, i) == (len - n_profile) + n_sample * i
idx_end(len, n_profile, n_sample, i) == (len - n_profile) + n_sample * (i + 1)

\* Lines 181-185: the events the profile statistics are computed from.
profile_window(evs, n_profile) == logged(<<>>, slice(evs, Len(evs) - n_profile, Len(evs)))

\* Lines 193-196 for chunk i (from 0).
sample_chunk(evs, n_profile, n_sample, i) ==
    logged(<<>>, slice(evs, idx_start(Len(evs), n_profile, n_sample, i),
                       idx_end(Len(evs), n_profile, n_sample, i)))

RECURSIVE FSumSeq(_)
FSumSeq(s) == IF s = <<>> THEN F(0) ELSE FAdd(FSumSeq(SubSeq(s, 1, Len(s) - 1)), s[Len(s)])

\* Lines 171-204.  The record returned holds, beside the result, what the call
\* went through: the window, the chunks and the diff of each chunk.  `order`
\* is the order the HashMap `stats` iterates its keys in (the same map is
\* iterated for every chunk).
compute_diff_base(evs, n_profile, n_sample, diff_params, order, checks) ==
    IF n_profile > Len(evs) THEN Ok(None)
    ELSE IF n_sample = 0 THEN Panic
    ELSE IF n_profile % n_sample # 0 THEN Ok(None)
    ELSE LET window == profile_window(evs, n_profile)
             stats == compute_digraph_statistics(window, checks)
             count == n_profile \div n_sample
             chunks == [i \in 1..count |-> sample_chunk(evs, n_profile, n_sample, i - 1)]
             chunk_stats == [i \in 1..count |-> compute_digraph_statistics(chunks[i], checks)]
         IN  IF stats.panic \/ \E i \in 1..count : chunk_stats[i].panic THEN Panic
             ELSE LET diffs == [i \in 1..count |->
                                  compute_diff(stats.value, chunk_stats[i].value,
                                               diff_params, order)]
                  IN  [panic |-> FALSE,
                       value |-> Some(FDiv(FSumSeq(diffs), F(count))),
                       window |-> window, chunks |-> chunks, diffs |-> diffs]

\* ------------------------------------------------------------ UserProfile
Digits == <<"0", "1", "2", "3", "4", "5", "6", "7", "8", "9">>
IsDigit(c) == \E i \in 1..Len(Digits) : Digits[i] = c
DigitValue(c) == (CHOOSE i \in 1..Len(Digits) : Digits[i] = c) - 1

\* format!("{}", n) of a u32: its decimal digits.
RECURSIVE format_u32(_)
format_u32(n) ==
    IF n < Len(Digits) THEN <<Digits[n + 1]>>
    ELSE format_u32(n \div Len(Digits)) \o <<Digits[(n % Len(Digits)) + 1]>>

RECURSIVE digits_value(_, _)
digits_value(str, acc) ==
    IF str = <<>> THEN acc
    ELSE digits_value(Tail(str), acc * Len(Digits) + DigitValue(Head(str)))

\* str::parse::<u32>().unwrap(): decimal digits after an optional '+'.
parse_u32(str) ==
    LET body == IF str # <<>> /\ Head(str) = "+" THEN Tail(str) ELSE str
    IN  IF body = <<>> \/ \E i \in 1..Len(body) : ~IsDigit(body[i]) THEN Panic
        ELSE Ok(digits_value(body, 0))

\* format!("{}", x) of an f64 prints the shortest decimal that parses back to
\* x ("NaN", "inf" for the specials); str::parse::<f64> reads it back.
format_f64(x) == [display |-> "f64", value |-> x]
parse_f64(t) ==
    IF "display" \in DOMAIN t /\ t.display = "f64" THEN Ok(t.value) ELSE Panic

\* serde_json on KeynomeAuthenticatorDiffParams (lines 127-132).
json_of_params(dp) ==
    [json |-> "DiffParams", dispersion |-> dp.dispersion,
     min_instances |-> dp.min_instances, max_comparisons |-> dp.max_comparisons]
params_of_json(t) ==
    IF "json" \in DOMAIN t /\ t.json = "DiffParams"
    THEN Ok([dispersion |-> t.dispersion, min_instances |-> t.min_instances,
             max_comparisons |-> t.max_comparisons])
    ELSE Panic

\* UserProfile::serialize, lines 232-242.
profile_serialize(profile) ==
    [json |-> "object",
     map |-> [n_profile |-> format_u32(profile.n_profile),
              n_sample |-> format_u32(profile.n_sample),
              diff_base |-> format_f64(profile.diff_base),
              diff_params |-> json_of_params(profile.diff_params),
              stats |-> serialize_digraph_statistics(profile.stats)]]

ProfileFields == {"n_profile", "n_sample", "diff_base", "diff_params", "stats"}

\* UserProfile::deserialize, lines 244-256; `order` as in
\* deserialize_digraph_statistics.
profile_deserialize(serialized, order) ==
    IF ~("json" \in DOMAIN serialized /\ serialized.json = "object") THEN Panic
    ELSE IF ~(ProfileFields \subseteq DOMAIN serialized.map) THEN Panic
    ELSE LET m == serialized.map
             n_profile == parse_u32(m.n_profile)
             n_sample == parse_u32(m.n_sample)
             diff_base == parse_f64(m.diff_base)
             diff_params == params_of_json(m.diff_params)
             stats == deserialize_digraph_statistics(m.stats, order)
         IN  IF \/ n_profile.panic \/ n_sample.panic \/ diff_base.panic
                \/ diff_params.panic \/ stats.panic
             THEN Panic
             ELSE Ok([n_profile |-> n_profile.value, n_sample |-> n_sample.value,
                      diff_base |-> diff_base.value, diff_params |-> diff_params.value,
                      stats |-> stats.value])

\* ------------------------------------------------------------ persistence runs
\* Most digraphs of a drawn statistics map.
MaxDigraphs == 2
\* Longest stats key of a drawn persisted text.
MaxKeyLen == 4

Chars == {"a", "b", "-"}

StatValues ==
    {[size_samples |-> 2, mean |-> F(1), std |-> F(0)],
     [size_samples |-> 3, mean |-> Frac(3, 2), std |-> Frac(1, 2)]}

StatsInputs ==
    UNION {[D -> StatValues] : D \in {X \in SUBSET (Chars \X Chars) : Cardinality(X) <= MaxDigraphs}}

RECURSIVE StringsUpTo(_)
StringsUpTo(n) ==
    IF n = 0 THEN {<<>>}
    ELSE LET shorter == StringsUpTo(n - 1)
         IN  shorter \cup {Append(str, c) : str \in shorter, c \in Chars}

\* The malformed keys the format's description names.
NamedKeys ==
    {<<"a", "b", "-", "c", "d">>, <<"a", "-", "b", "-", "c">>, <<"a", "-">>,
     <<"-", "b">>, <<"a", "b">>}

\* A persisted stats text with one entry.
PersistedInputs ==
    {[json |-> "object", map |-> [key \in {k} |-> json_of_stats(v)]] :
        k \in StringsUpTo(MaxKeyLen) \cup NamedKeys, v \in StatValues}

ParamsInputs ==
    {[dispersion |-> FALSE, min_instances |-> 1, max_comparisons |-> 100],
     [dispersion |-> TRUE, min_instances |-> 2, max_comparisons |-> 100]}

ProfileInputs ==
    [n_profile : {0, 12}, n_sample : {6}, diff_base : {F(0), F(675)},
     diff_params : ParamsInputs, stats : StatsInputs]

InitPersistence ==
    /\ events = <<>>
    /\ events_limit = None
    /\ overflow_checks = FALSE
    /\ appended = <<>>
    /\ limit_on_empty = TRUE
    /\ ret = [op |-> "none"]
    /\ \/ \E m \in StatsInputs : input = [kind |-> "stats", stats |-> m]
       \/ \E t \in PersistedInputs : input = [kind |-> "persisted", text |-> t]
       \/ \E pr \in ProfileInputs : input = [kind |-> "profile", profile |-> pr]

SerializeDigraphStatistics ==
    /\ input.kind = "stats"
    /\ ret' = [op |-> "serialize_digraph_statistics",
               text |-> serialize_digraph_statistics(input.stats)]
    /\ UNCHANGED <<logger, input>>

\* The text just serialized is read back.
DeserializeSerialized ==
    /\ ret.op = "serialize_digraph_statistics"
    /\ \E order \in Orders(DOMAIN ret.text.map) :
          ret' = [op |-> "deserialize_digraph_statistics",
                  result |-> deserialize_digraph_statistics(ret.text, order)]
    /\ UNCHANGED <<logger, input>>

\* A stats text found in a profile file is read.
DeserializePersisted ==
    /\ input.kind = "persisted"
    /\ \E order \in Orders(DOMAIN input.text.map) :
          ret' = [op |-> "deserialize_digraph_statistics",
                  result |-> deserialize_digraph_statistics(input.text, order)]
    /\ UNCHANGED <<logger, input>>

ProfileSerialize ==
    /\ input.kind = "profile"
    /\ ret' = [op |-> "UserProfile::serialize", text |-> profile_serialize(input.profile)]
    /\ UNCHANGED <<logger, input>>

ProfileDeserialize ==
    /\ ret.op = "UserProfile::serialize"
    /\ \E order \in Orders(DOMAIN ret.text.map.stats.map) :
          ret' = [op |-> "UserProfile::deserialize",
                  result |-> profile_deserialize(ret.text, order)]
    /\ UNCHANGED <<logger, input>>

\* load_user_profile on a file whose stats field is the persisted text.
ProfileDeserializePersisted ==
    /\ input.kind = "persisted"
    /\ \E pr \in ProfileInputs, order \in Orders(DOMAIN input.text.map) :
          /\ pr.stats = EmptyMap
          /\ ret' = [op |-> "UserProfile::deserialize",
                     result |-> profile_deserialize(
                        [profile_serialize(pr) EXCEPT !.map.stats = input.text], order)]
    /\ UNCHANGED <<logger, input>>

NextPersistence ==
    \/ SerializeDigraphStatistics
    \/ DeserializeSerialized
    \/ DeserializePersisted
    \/ ProfileSerialize
    \/ ProfileDeserialize
    \/ ProfileDeserializePersisted

SpecPersistence == InitPersistence /\ [][NextPersistence]_vars

\* ------------------------------------------------------------ claims: text forms
\* A stats key that splits on '-' into exactly two one-character segments.
WellFormedKey(k) == Len(k) = 3 /\ k[1] # "-" /\ k[2] = "-" /\ k[3] # "-"

\* C4: deserializing what serialize wrote completes and gives back the same
\* digraph keys with the same size_samples, mean and std, and for a
\* UserProfile the same n_profile, n_sample, diff_base and diff_params too.
C4_RoundTrip ==
    /\ (ret.op = "deserialize_digraph_statistics" /\ input.kind = "stats")
          => (~ret.result.panic /\ ret.result.value = input.stats)
    /\ (ret.op = "UserProfile::deserialize" /\ input.kind = "profile")
          => (~ret.result.panic /\ ret.result.value = input.profile)

\* C5: reading a persisted stats text fails when one of its keys does not
\* split on '-' into exactly two one-character segments.
C5_MalformedKeyFails ==
    (/\ input.kind = "persisted"
     /\ ret.op \in {"deserialize_digraph_statistics", "UserProfile::deserialize"}
     /\ \E k \in DOMAIN input.text.map : ~WellFormedKey(k))
        => ret.result.panic

\* ------------------------------------------------------------ scoring runs
\* Events with the keys ks, the first at time 0, the next ones delta apart.
Timeline(ks, delta) == [i \in 1..Len(ks) |-> KeyEvent((i - 1) * delta, ks[i])]

SampleStatValues ==
    {[size_samples |-> 2, mean |-> F(2), std |-> F(0)],
     [size_samples |-> 2, mean |-> F(4), std |-> F(1)]}

MapsOver(D, V) ==
    UNION {[X -> V] : X \in {Y \in SUBSET D : Cardinality(Y) <= MaxDigraphs}}

DiffParamsInputs == [dispersion : BOOLEAN, min_instances : {1, 3}, max_comparisons : {1, 2, 100}]

FreshEvents ==
    {Timeline(ks, delta) : ks \in {<<>>, <<"a", "a", "a">>, <<"a", "b", "a", "b", "a">>},
                           delta \in {1, 3}}

InitScoring ==
    /\ events_limit = None
    /\ overflow_checks = FALSE
    /\ appended = <<>>
    /\ limit_on_empty = TRUE
    /\ ret = [op |-> "none"]
    /\ \/ \E pm \in MapsOver(Keys \X Keys, StatValues),
             sm \in MapsOver(Keys \X Keys, SampleStatValues),
             dp \in DiffParamsInputs :
               /\ input = [kind |-> "diff", stats_profile |-> pm, stats_sample |-> sm,
                           diff_params |-> dp]
               /\ events = <<>>
       \/ \E pm \in MapsOver(Keys \X Keys, StatValues), dp \in DiffParamsInputs,
             base \in {F(0), F(1)}, mult \in {F(1), F(2)}, evs \in FreshEvents :
               /\ input = [kind |-> "auth",
                           self |-> [diff_base |-> base, multiplier |-> mult,
                                     diff_params |-> dp, stats |-> pm]]
               /\ events = evs

ComputeDiff ==
    /\ input.kind = "diff"
    /\ \E order \in Orders(DOMAIN input.stats_profile) :
          ret' = [op |-> "compute_diff",
                  diff |-> compute_diff(input.stats_profile, input.stats_sample,
                                        input.diff_params, order)]
    /\ UNCHANGED <<logger, input>>

Authenticate ==
    /\ input.kind = "auth"
    /\ ret' = [op |-> "authenticate", accept |-> authenticate(input.self, events)]
    /\ UNCHANGED <<logger, input>>

NextScoring ==
    \/ ComputeDiff
    \/ Authenticate

SpecScoring == InitScoring /\ [][NextScoring]_vars

\* ------------------------------------------------------------ calibration runs
\* Longest drawn single-key log.
MaxEvents == 6

Deltas == {1, 2}

\* The logs of at most n events of the key "a", each a delay in Deltas after
\* the one before.
RECURSIVE SingleKeyLogs(_)
SingleKeyLogs(n) ==
    IF n = 0 THEN {<<>>}
    ELSE LET shorter == SingleKeyLogs(n - 1)
         IN  shorter
             \cup {<<KeyEvent(0, "a")>>}
             \cup {Append(evs, KeyEvent(evs[Len(evs)].timestamp_ms + delta, "a")) :
                     evs \in shorter \ {<<>>}, delta \in Deltas}

\* The events of tests::keynome_authenticator_compute_diff_base, lines 411-427.
TestEvents ==
    <<KeyEvent(10000, "a"), KeyEvent(11000, "b"), KeyEvent(12000, "a"),
      KeyEvent(14000, "b"), KeyEvent(15000, "a"), KeyEvent(18000, "b"),
      KeyEvent(20000, "a"), KeyEvent(20500, "b"), KeyEvent(21000, "a"),
      KeyEvent(22000, "b"), KeyEvent(24000, "a"), KeyEvent(25500, "b")>>

\* Its diff_params, lines 429-433.
TestParams == [dispersion |-> FALSE, min_instances |-> 1, max_comparisons |-> 100]

\* The logs a recording of the test's keystrokes passes through under an
\* events limit: its runs of consecutive events.
TestLogs ==
    {SubSeq(TestEvents, i, j) : i \in 1..Len(TestEvents), j \in 1..Len(TestEvents)}

CalibrationParams == [dispersion : BOOLEAN, min_instances : {2}, max_comparisons : {1, 100}]

\* main, lines 150-151: the profile subcommand calibrates with these literals.
MainProfileLen == 12
MainSampleLen == 6

InitCalibration ==
    /\ events_limit = None
    /\ overflow_checks = FALSE
    /\ appended = <<>>
    /\ limit_on_empty = TRUE
    /\ ret = [op |-> "none"]
    /\ \/ /\ events \in SingleKeyLogs(MaxEvents)
          /\ \E dp \in CalibrationParams : input = [kind |-> "calibration", diff_params |-> dp]
       \/ /\ events \in TestLogs
          /\ \E dp \in {TestParams, [TestParams EXCEPT !.max_comparisons = 1]} :
                input = [kind |-> "calibration", diff_params |-> dp]

\* The orders the HashMap of the profile window's statistics may iterate in.
WindowOrders(evs, n_profile, checks) ==
    IF n_profile > Len(evs) THEN {<<>>}
    ELSE LET stats == compute_digraph_statistics(profile_window(evs, n_profile), checks)
         IN  IF stats.panic THEN {<<>>} ELSE Orders(DOMAIN stats.value)

\* compute_diff_base reads nothing but its arguments: one call per drawn
\* log shows all it can do.
ComputeDiffBase(n_profile, n_sample) ==
    /\ ret.op = "none"
    /\ \E order \in WindowOrders(events, n_profile, overflow_checks) :
          ret' = [op |-> "compute_diff_base", n_profile |-> n_profile, n_sample |-> n_sample,
                  result |-> compute_diff_base(events, n_profile, n_sample,
                                               input.diff_params, order, overflow_checks)]
    /\ UNCHANGED <<logger, input>>

\* main, lines 136-154: the statistics, the calibration unwrapped, the profile.
MainProfile(n_profile, n_sample) ==
    /\ ret.op = "none"
    /\ \E order \in WindowOrders(events, MainProfileLen, overflow_checks) :
          LET stats == compute_digraph_statistics(events, overflow_checks)
              diff_base == compute_diff_base(events, MainProfileLen, MainSampleLen,
                                             input.diff_params, order, overflow_checks)
          IN  ret' = [op |-> "main::profile",
                      result |-> IF stats.panic \/ diff_base.panic \/ ~IsSome(diff_base.value)
                                 THEN Panic
                                 ELSE Ok([n_profile |-> n_profile, n_sample |-> n_sample,
                                          diff_base |-> Unwrap(diff_base.value),
                                          diff_params |-> input.diff_params,
                                          stats |-> stats.value])]
    /\ UNCHANGED <<logger, input>>

NextCalibration ==
    \/ \E n_profile \in 0..(Len(events) + 1), n_sample \in 0..(Len(events) + 1) :
          ComputeDiffBase(n_profile, n_sample)
    \/ \E n_profile \in {Len(events)}, n_sample \in {MainSampleLen} :
          MainProfile(n_profile, n_sample)

SpecCalibration == InitCalibration /\ [][NextCalibration]_vars

\* ------------------------------------------------------------ claims: the log
LastN(s, n) == SubSeq(s, Len(s) - n + 1, Len(s))

\* Timestamps non-decreasing along the sequence.
Monotone(evs) ==
    \A i \in 1..(Len(evs) - 1) : evs[i].timestamp_ms <= evs[i + 1].timestamp_ms

\* How often the ordered pair d occurs as two adjacent events.
Occurrences(evs, d) ==
    Cardinality({i \in 1..(Len(evs) - 1) : <<evs[i].key, evs[i + 1].key>> = d})

\* C1: whenever a limit is configured the log holds at most that many events,
\* and right after set_events_limit(limit) on a log that held more than limit
\* events, it holds exactly limit events.
C1_LengthWithinLimit ==
    /\ IsSome(events_limit) => Len(events) <= Unwrap(events_limit)
    /\ (ret.op = "set_events_limit" /\ ret.len_before > ret.limit)
          => Len(events) = ret.limit

\* C2: with the limit (if any) configured while the log was empty, after n
\* appends the log holds exactly the last min(n, limit) appended events in
\* arrival order, and all n of them when no limit is configured.
C2_KeepsMostRecent ==
    limit_on_empty =>
        events = LastN(appended,
                       IF IsSome(events_limit)
                       THEN Min(Len(appended), Unwrap(events_limit))
                       ELSE Len(appended))

\* An append overflowed a limit of at least 1 set on the empty log.
C2_Witness ==
    /\ limit_on_empty /\ ret.op = "add_key_event"
    /\ IsSome(events_limit) /\ Unwrap(events_limit) >= 1
    /\ Len(appended) > Unwrap(events_limit) + 1

\* C3: on a log with non-decreasing timestamps the statistics map has as keys
\* exactly the ordered pairs occurring at least twice as adjacent events, each
\* with size_samples equal to its number of occurrences.
C3_KeysAndCounts ==
    (ret.op = "compute_digraph_statistics" /\ Monotone(events)) =>
        /\ ~ret.result.panic
        /\ DOMAIN ret.result.value = {d \in Keys \X Keys : Occurrences(events, d) >= 2}
        /\ \A d \in DOMAIN ret.result.value :
              /\ ret.result.value[d].size_samples = Occurrences(events, d)
              /\ ret.result.value[d].size_samples >= 2

\* Statistics of a log where (a,b) occurs twice and (b,a) once: the first is
\* reported, the second is not.
C3_Witness ==
    /\ ret.op = "compute_digraph_statistics" /\ Monotone(events)
    /\ Occurrences(events, <<"a", "b">>) = 2
    /\ Occurrences(events, <<"b", "a">>) = 1
    /\ <<"a", "b">> \in DOMAIN ret.result.value
    /\ <<"b", "a">> \notin DOMAIN ret.result.value

\* C12: on every log reachable through add_key_event and add_keystroke,
\* compute_digraph_statistics completes, and each latency it groups is the
\* difference of the two timestamps, which is not negative: the u128
\* subtraction neither aborts nor wraps.
C12_NoUnderflow ==
    ret.op = "compute_digraph_statistics" =>
        /\ ~ret.result.panic
        /\ \A i \in 1..(Len(events) - 1) :
              LET v == latency(events[i], events[i + 1], overflow_checks)
              IN  /\ ~v.panic
                  /\ v.value = events[i + 1].timestamp_ms - events[i].timestamp_ms
                  /\ v.value >= 0
        /\ \A d \in DOMAIN ret.result.value :
              FLe(F(0), ret.result.value[d].mean) /\ FLe(ret.result.value[d].mean, F(MaxTs))

\* ------------------------------------------------------------ claims: scoring
\* C7: the score of compute_diff depends on its arguments alone: whatever
\* order the profile map's digraphs are visited in, the score is the same.
C7_ScoreIndependentOfOrder ==
    ret.op = "compute_diff" =>
        \A order \in Orders(DOMAIN input.stats_profile) :
            ret.diff = compute_diff(input.stats_profile, input.stats_sample,
                                    input.diff_params, order)

\* The scores compute_diff may return for the fresh events against the
\* authenticator's profile.
FreshDiffs(self, evs) ==
    {compute_diff(self.stats, compute_digraph_statistics(evs, FALSE).value,
                  self.diff_params, order) : order \in Orders(DOMAIN self.stats)}

\* C8: authenticate accepts exactly when the diff of the fresh events against
\* the profile is at most diff_base * multiplier (stated where every visiting
\* order gives the same side of the threshold).
C8_AcceptIffWithinThreshold ==
    ret.op = "authenticate" =>
        LET threshold == FMul(input.self.diff_base, input.self.multiplier)
            diffs == FreshDiffs(input.self, events)
        IN  /\ (\A d \in diffs : FLe(d, threshold)) => ret.accept
            /\ (\A d \in diffs : ~FLe(d, threshold)) => ~ret.accept

\* The digraphs compute_diff is to compare: present in both maps, with at
\* least min_instances samples in the profile.
Eligible(stats_profile, stats_sample, diff_params) ==
    {k \in DOMAIN stats_profile \cap DOMAIN stats_sample :
        stats_profile[k].size_samples >= diff_params.min_instances}

\* |profile.mean - sample.mean| / divisor for the digraph k.
Contribution(stats_profile, stats_sample, diff_params, k) ==
    FDiv(FAbs(FSub(stats_profile[k].mean, stats_sample[k].mean)),
         IF diff_params.dispersion THEN FAdd(Frac(1, 1000), stats_profile[k].std) ELSE F(1))

RECURSIVE SumOfContributions(_, _, _, _)
SumOfContributions(S, stats_profile, stats_sample, diff_params) ==
    IF S = {} THEN F(0)
    ELSE LET k == CHOOSE x \in S : TRUE
         IN  FAdd(Contribution(stats_profile, stats_sample, diff_params, k),
                  SumOfContributions(S \ {k}, stats_profile, stats_sample, diff_params))

\* The sample maps with the digraphs and means of stats_sample and any other
\* size_samples and std.
SampleVariants(stats_sample) ==
    {[k \in DOMAIN stats_sample |->
         [size_samples |-> c[k][1], mean |-> stats_sample[k].mean, std |-> c[k][2]]] :
       c \in [DOMAIN stats_sample -> {0, 9} \X {F(0), F(5)}]}

\* C11: when max_comparisons is at least 1 and at least the number of
\* eligible common digraphs, compute_diff returns the sum, not normalized, of
\* |profile.mean - sample.mean| / divisor over the digraphs present in both
\* maps with profile size_samples >= min_instances (divisor 1 without
\* dispersion, 0.001 + profile.std with it); the other digraphs add nothing,
\* and the sample's size_samples and std do not change the score.
C11_SumOverEligible ==
    LET pm == input.stats_profile
        sm == input.stats_sample
        dp == input.diff_params
    IN  (/\ ret.op = "compute_diff"
         /\ dp.max_comparisons >= 1
         /\ dp.max_comparisons >= Cardinality(Eligible(pm, sm, dp))) =>
            /\ ret.diff = SumOfContributions(Eligible(pm, sm, dp), pm, sm, dp)
            /\ \A order \in Orders(DOMAIN pm), sm2 \in SampleVariants(sm) :
                  compute_diff(pm, sm2, dp, order) = ret.diff

\* A score with dispersion on where one common digraph is below min_instances
\* in the profile and the only eligible one exhausts max_comparisons.
C11_Witness ==
    /\ ret.op = "compute_diff"
    /\ input.diff_params.dispersion
    /\ input.diff_params.max_comparisons = 1
    /\ Cardinality(Eligible(input.stats_profile, input.stats_sample, input.diff_params)) = 1
    /\ \E k \in DOMAIN input.stats_profile \cap DOMAIN input.stats_sample :
          input.stats_profile[k].size_samples < input.diff_params.min_instances
    /\ ret.diff # F(0)

\* ------------------------------------------------------------ claims: calibration
\* n_sample divides n_profile evenly: n_profile is a whole multiple of it.
Divides(n_sample, n_profile) == \E q \in 0..n_profile : q * n_sample = n_profile

\* C6: when n_profile exceeds the number of events, or n_sample does not
\* divide n_profile evenly (n_sample = 0 included), compute_diff_base returns
\* no result and does not crash.
C6_NoResultNoCrash ==
    (/\ ret.op = "compute_diff_base"
     /\ \/ ret.n_profile > Len(events)
        \/ ~Divides(ret.n_sample, ret.n_profile))
        => (~ret.result.panic /\ ret.result.value = None)

\* C9: a diff_base that compute_diff_base returns is a number and it is not
\* negative.
C9_DiffBaseNonNegative ==
    (ret.op = "compute_diff_base" /\ ~ret.result.panic /\ IsSome(ret.result.value))
        => FLe(F(0), Unwrap(ret.result.value))

\* C10: given n_profile <= the number of events and n_sample (at least 1)
\* dividing n_profile, compute_diff_base takes the last n_profile events as the
\* window, cuts it into n_profile / n_sample consecutive chunks of n_sample
\* events that cover it in order, scores each chunk's own statistics against
\* the window's, and returns the arithmetic mean of the scores (the 0/0 of
\* IEEE 754 when there is no chunk); the test's log gives 800 and 550, so 675.
C10_WindowChunksMean ==
    (/\ ret.op = "compute_diff_base"
     /\ ret.n_profile <= Len(events)
     /\ ret.n_sample >= 1 /\ Divides(ret.n_sample, ret.n_profile)) =>
        LET r == ret.result
            count == ret.n_profile \div ret.n_sample
            window == LastN(events, ret.n_profile)
            window_stats == compute_digraph_statistics(window, FALSE).value
            Chunk(i) == SubSeq(window, (i - 1) * ret.n_sample + 1, i * ret.n_sample)
        IN  /\ ~r.panic /\ IsSome(r.value)
            /\ r.window = window
            /\ Len(r.chunks) = count /\ Len(r.diffs) = count
            /\ \A i \in 1..count : r.chunks[i] = Chunk(i) /\ Len(r.chunks[i]) = ret.n_sample
            /\ \E order \in Orders(DOMAIN window_stats) :
                  \A i \in 1..count :
                      r.diffs[i] = compute_diff(window_stats,
                                                compute_digraph_statistics(Chunk(i), FALSE).value,
                                                input.diff_params, order)
            /\ count >= 1 => FMul(Unwrap(r.value), F(count)) = FSumSeq(r.diffs)
            /\ count = 0 => IsNaN(Unwrap(r.value))
            /\ (events = TestEvents /\ input.diff_params = TestParams
                /\ ret.n_profile = 12 /\ ret.n_sample = 6)
                  => (r.diffs = <<F(800), F(550)>> /\ r.value = Some(F(675)))

\* Two chunks of three events cut from the last six of a longer log, with
\* scores that differ.
C10_Witness ==
    /\ ret.op = "compute_diff_base" /\ ~ret.result.panic
    /\ Len(events) > ret.n_profile
    /\ ret.n_profile = 2 * ret.n_sample /\ ret.n_sample >= 3
    /\ IsSome(ret.result.value)
    /\ ret.result.diffs[1] # ret.result.diffs[2]
    /\ ret.result.diffs[1] # F(0)

====
